---- MODULE Spec2Model ----
(***************************************************************************)
(* Lobby controller of lib-jitsi-meet (modules/xmpp/Lobby.js).             *)
(*                                                                         *)
(* One Lobby instance is modelled together with the collaborators it       *)
(* drives: the main ChatRoom, the lobby ChatRoom instances it creates, the *)
(* xmpp connection and the main room's event emitter.  Every handler of    *)
(* Lobby.js is one action.  The calls a handler makes on its collaborators *)
(* are written down, in program order, as a sequence of calls (`trace`);   *)
(* the collaborators' state is obtained by applying that sequence.         *)
(* Spec follows that one controller; SpecLive follows a moderator's        *)
(* controller together with a participant waiting at the far end of the    *)
(* lobby room, to whom the backend delivers the moderator's kicks.         *)
(***************************************************************************)
EXTENDS Integers, Sequences, FiniteSets, TLC

(* ------------------------------ bounds --------------------------------- *)
\* lobby ChatRoom instances created over a run (lobby-path joinLobbyRoom calls)
MaxRooms == 2

(* ------------------------------ values --------------------------------- *)
\* JavaScript `undefined` for strings ('' and undefined are both falsy)
Undefined == ""
Truthy(s) == s # Undefined
\* JavaScript `undefined` for a jid returned by Array.prototype.find
NoJid == <<>>

LobbyDomain == "lobby.example"
MucDomain == "conference.example"
\* xmpp.lobbyroomComponentAddress: absent or the lobby component
Addresses == {Undefined, LobbyDomain}

\* a bare room jid is <<node, domain>>, an occupant or full jid <<node, domain, resource>>
MainRoomJid == <<"room1", MucDomain>>
OtherRoomJid == <<"room2", MucDomain>>
RoomJids == {MainRoomJid, OtherRoomJid}

Passwords == {Undefined, "xyz789"}
Resources == {"res1", "res2"}
\* the occupants the lobby room may hold: their full jid and nickname
FullJidOf(res) == IF res = "res1" THEN <<"alice", "example.com", "a1">>
                  ELSE <<"bob", "example.com", "res1">>
NickOf(res) == IF res = "res1" THEN "Alice" ELSE "Bob"
Avatars == {Undefined, "avatar1"}
JoinErrors == {"ROOM_JOIN_ERROR", "ROOM_CONNECT_NOT_ALLOWED_ERROR", "ROOM_CONNECT_ERROR"}
Roles == {"none", "participant", "moderator"}

\* Strophe.getNodeFromJid / Strophe.getResourceFromJid
getNodeFromJid(jid) == jid[1]
getResourceFromJid(jid) == IF Len(jid) >= 3 THEN jid[3] ELSE Undefined

VARIABLES
    lobbyroomComponentAddress, \* this.xmpp.lobbyroomComponentAddress
    mainRoom,                  \* this.mainRoom (ChatRoom)
    lobbyRoom,                 \* this.lobbyRoom: 0 (undefined), or n for the n-th instance created
    room,                      \* the ChatRoom instance this.lobbyRoom refers to
    members,                   \* this.lobbyRoom.members: records [key: occupant jid, jid: full jid]
    enable,                    \* the enableLobby call in progress and its promise
    peer,                      \* a participant waiting at the far end, when one is followed
    trace,                     \* the calls made by the last handler, in order
    last                       \* the last handler run and its arguments

vars == <<lobbyroomComponentAddress, mainRoom, lobbyRoom, room, members,
          enable, peer, trace, last>>

(* --------------------- the collaborators (ChatRoom, xmpp) --------------- *)
\* A lobby ChatRoom as xmpp.createRoom returns it.  An instance the controller
\* has replaced by a newer one delivers no further events: only the instance
\* this.lobbyRoom refers to is kept.
NewRoom(node, domain) ==
    [jid |-> <<node, domain>>,
     listeners |-> {},
     state |-> "created",
     promise |-> "none",
     isModerator |-> FALSE,
     email |-> Undefined]

NoRoom == NewRoom(Undefined, Undefined)

\* The controller of a participant at the far end of the lobby room: the state
\* of its lobby room, whether the backend holds a kick for it, and whether it
\* emitted denied access.  NoPeer: no far-end controller is followed, and the
\* kicks this controller sends leave the model.
NoPeer == [state |-> "none", kick |-> FALSE, denied |-> FALSE]
WaitingPeer == [state |-> "joined", kick |-> FALSE, denied |-> FALSE]
\* the resource of the far-end participant in the lobby room
PeerId == "res1"

\* the part of the world a call acts on
World == [mainRoom |-> mainRoom, lobbyRoom |-> lobbyRoom, room |-> room, peer |-> peer]

\* the effect of one call on the collaborators
Apply(w, c) ==
    CASE c[1] = "xmpp.createRoom" ->
            [w EXCEPT !.room = NewRoom(c[2], IF Truthy(c[3]) THEN c[3] ELSE MucDomain),
                      !.lobbyRoom = @ + 1]
      [] c[1] \in {"lobbyRoom.addPresenceListener", "lobbyRoom.addEventListener"} ->
            [w EXCEPT !.room.listeners = @ \cup {c[2]}]
      [] c[1] = "mainRoom.addEventListener" ->
            [w EXCEPT !.mainRoom.inviteListeners = @ + 1]
      [] c[1] = "new Promise" ->
            [w EXCEPT !.room.promise = "pending",
                      !.room.isModerator = (c[2] = "true"),
                      !.room.email = c[3]]
      [] c[1] = "resolve" ->
            [w EXCEPT !.room.promise = IF @ = "pending" THEN "resolved" ELSE @]
      [] c[1] = "reject" ->
            [w EXCEPT !.room.promise = IF @ = "pending" THEN "rejected" ELSE @]
      [] c[1] = "lobbyRoom.join" ->
            [w EXCEPT !.room.state = "joining"]
      [] c[1] = "lobbyRoom.leave" ->
            [w EXCEPT !.room.state = "leaving"]
      [] c[1] = "lobbyRoom.clean" ->
            [w EXCEPT !.room.state = "cleaned"]
      [] c[1] \in {"mainRoom.join", "return mainRoom.join"} ->
            [w EXCEPT !.mainRoom.joining = TRUE]
      [] c[1] = "lobbyRoom.kick" ->
            [w EXCEPT !.peer.kick = @ \/ (w.peer.state = "joined" /\ c[4] = PeerId)]
      [] OTHER -> w

RECURSIVE ApplyAll(_, _)
ApplyAll(w, cs) ==
    IF cs = <<>> THEN w ELSE ApplyAll(Apply(w, Head(cs)), Tail(cs))

\* the calls cs, made on the collaborators in state w0, take effect
RunOn(w0, cs) ==
    LET w == ApplyAll(w0, cs) IN
    /\ mainRoom' = w.mainRoom
    /\ lobbyRoom' = w.lobbyRoom
    /\ room' = w.room
    /\ peer' = w.peer
    /\ trace' = cs

Run(cs) == RunOn(World, cs)

\* what the controller and its collaborators hold, the record of the last handler aside
core == <<lobbyroomComponentAddress, mainRoom, lobbyRoom, room, members, enable>>

Calls(cs, name) == {i \in 1..Len(cs) : cs[i][1] = name}
Made(cs, name) == Calls(cs, name) # {}
Count(cs, name) == Cardinality(Calls(cs, name))

\* the notifications evt among the calls cs
Emitted(cs, evt) == {i \in 1..Len(cs) : cs[i][1] = "emit" /\ cs[i][2] = evt}

Did(op, id, flag) == [op |-> op, id |-> id, flag |-> flag]

(* ------------------------------- Lobby.js ------------------------------ *)
\* ChatRoom.isModerator() of the main room
IsModerator == mainRoom.role = "moderator"

\* mutant: the backend is taken to support the lobby whatever its address
isLobbySupported_Always == TRUE

isLobbySupported == Truthy(lobbyroomComponentAddress)

\* the controller after construction, lines 27-30
InitLobby ==
    /\ lobbyroomComponentAddress \in Addresses
    /\ \E joined \in BOOLEAN, role \in Roles :
          /\ joined <=> role # "none"
          /\ mainRoom = [roomjid |-> MainRoomJid, joined |-> joined, role |-> role,
                         inviteListeners |-> 0, joining |-> FALSE]
    /\ lobbyRoom = 0
    /\ room = NoRoom
    /\ members = {}
    /\ enable = [pc |-> "idle", password |-> Undefined, room |-> 0]
    /\ trace = <<>>
    /\ last = Did("init", Undefined, FALSE)

Init == InitLobby /\ peer = NoPeer

(* enableLobby: lines 47-108 *)
\* the stanza of lines 54-57
ConfigQuery == <<"xmpp.sendIQ", "get", mainRoom.roomjid[1], mainRoom.roomjid[2]>>

\* mutant: the lobby password is left out of the submitted form
ConfigSubmit_NoPassword(password) ==
    <<"xmpp.sendIQ", "set", mainRoom.roomjid[1], mainRoom.roomjid[2],
      "muc#roomconfig_membersonly", "true">>

\* the stanza of lines 61-92
ConfigSubmit(password) ==
    <<"xmpp.sendIQ", "set", mainRoom.roomjid[1], mainRoom.roomjid[2],
      "muc#roomconfig_membersonly", "true">>
    \o (IF Truthy(password)
        THEN <<"muc#roomconfig_lobbypassword", password>> ELSE <<>>)

enableLobbyCalls ==
    IF ~isLobbySupported THEN <<<<"enableLobby.reject", "UnsupportedError">>>> ELSE <<ConfigQuery>>

\* mutant: the form is submitted without looking for the members-only field
queryResultCalls_Unchecked(hasField, password) == <<ConfigSubmit(password)>>

\* the success callback of the configuration query, lines 58-103
queryResultCalls(hasField, password) ==
    IF hasField THEN <<ConfigSubmit(password)>>
    ELSE <<<<"enableLobby.reject", "ConfigurationError">>>>

Bool(b) == IF b THEN "true" ELSE "false"

(* joinLobbyRoom: lines 118-210 *)
\* mutant: the shared password is never tried
fastPath_Never(password, isModerator) == FALSE

fastPath(password, isModerator) == Truthy(password) /\ ~isModerator

\* mutant: the join is issued right after the room is created
lobbyPathCalls_JoinFirst(displayName, email, isModerator) ==
    <<<<"xmpp.createRoom", getNodeFromJid(mainRoom.roomjid), lobbyroomComponentAddress>>,
      <<"new Promise", Bool(isModerator), email>>,
      <<"lobbyRoom.join">>>>
    \o (IF isModerator
        THEN <<<<"lobbyRoom.addPresenceListener", "email">>,
               <<"lobbyRoom.addEventListener", "MUC_MEMBER_JOINED">>>>
        ELSE <<<<"lobbyRoom.addEventListener", "KICKED">>,
               <<"mainRoom.addEventListener", "INVITE_MESSAGE_RECEIVED">>>>)
    \o <<<<"lobbyRoom.addEventListener", "MUC_JOINED">>,
         <<"lobbyRoom.addEventListener", "ROOM_JOIN_ERROR">>,
         <<"lobbyRoom.addEventListener", "ROOM_CONNECT_NOT_ALLOWED_ERROR">>,
         <<"lobbyRoom.addEventListener", "ROOM_CONNECT_ERROR">>>>

lobbyPathCalls(displayName, email, isModerator) ==
    <<<<"xmpp.createRoom", getNodeFromJid(mainRoom.roomjid), lobbyroomComponentAddress>>>>
    \o (IF Truthy(displayName)
        THEN <<<<"lobbyRoom.removeFromPresence", "nick">>,
               <<"lobbyRoom.addToPresence", "nick", displayName>>>>
        ELSE <<>>)
    \o (IF isModerator
        THEN <<<<"lobbyRoom.addPresenceListener", "email">>,
               <<"lobbyRoom.addEventListener", "MUC_MEMBER_JOINED">>>>
        ELSE <<<<"lobbyRoom.addEventListener", "KICKED">>,
               <<"mainRoom.addEventListener", "INVITE_MESSAGE_RECEIVED">>>>)
    \o <<<<"new Promise", Bool(isModerator), email>>,
         <<"lobbyRoom.addEventListener", "MUC_JOINED">>,
         <<"lobbyRoom.addEventListener", "ROOM_JOIN_ERROR">>,
         <<"lobbyRoom.addEventListener", "ROOM_CONNECT_NOT_ALLOWED_ERROR">>,
         <<"lobbyRoom.addEventListener", "ROOM_CONNECT_ERROR">>,
         <<"lobbyRoom.join">>>>

joinLobbyRoomCalls(displayName, email, password) ==
    LET isModerator == mainRoom.joined /\ IsModerator IN
    IF fastPath(password, isModerator)
    THEN <<<<"return mainRoom.join", password>>>>
    ELSE lobbyPathCalls(displayName, email, isModerator)

\* the body of joinLobbyRoom, shared by its callers
joinLobbyRoomBody(displayName, email, password) ==
    LET cs == joinLobbyRoomCalls(displayName, email, password) IN
    /\ Count(cs, "xmpp.createRoom") + lobbyRoom <= MaxRooms
    /\ Run(cs)
    /\ members' = IF Made(cs, "xmpp.createRoom") THEN {} ELSE members

\* an enableLobby call awaits a reply, or the join of the instance it created
InFlight ==
    \/ enable.pc \in {"query", "submit"}
    \/ enable.pc = "joining" /\ enable.room = lobbyRoom

\* the promise of enableLobby after a handler that made the calls cs
Promised(pc, cs) == IF Made(cs, "enableLobby.reject") THEN "rejected" ELSE pc

enableLobby(password) ==
    /\ ~InFlight
    /\ LET cs == enableLobbyCalls IN
       /\ Run(cs)
       /\ enable' = [pc |-> Promised("query", cs),
                     password |-> IF Made(cs, "enableLobby.reject") THEN Undefined ELSE password,
                     room |-> 0]
    /\ last' = Did("enableLobby", password, FALSE)
    /\ UNCHANGED <<lobbyroomComponentAddress, members>>

\* lines 58-103: the configuration form arrives
queryResult(hasField) ==
    /\ enable.pc = "query"
    /\ LET cs == queryResultCalls(hasField, enable.password) IN
       /\ Run(cs)
       /\ enable' = [enable EXCEPT !.pc = Promised("submit", cs), !.password = Undefined]
    /\ last' = Did("queryResult", Undefined, hasField)
    /\ UNCHANGED <<lobbyroomComponentAddress, members>>

\* lines 104-106: the configuration query fails
queryError ==
    /\ enable.pc = "query"
    /\ LET cs == <<<<"enableLobby.reject", "TransportError">>>> IN
       /\ Run(cs)
       /\ enable' = [enable EXCEPT !.pc = Promised("query", cs), !.password = Undefined]
    /\ last' = Did("queryError", Undefined, FALSE)
    /\ UNCHANGED <<lobbyroomComponentAddress, members>>

\* lines 94-96: the configuration submission succeeded
submitResult ==
    /\ enable.pc = "submit"
    /\ joinLobbyRoomBody(Undefined, Undefined, Undefined)
    /\ enable' = [enable EXCEPT !.pc = "joining", !.room = lobbyRoom']
    /\ last' = Did("submitResult", Undefined, mainRoom.joined /\ IsModerator)
    /\ UNCHANGED lobbyroomComponentAddress

\* lines 97-99: the configuration submission failed
submitError ==
    /\ enable.pc = "submit"
    /\ LET cs == <<<<"enableLobby.reject", "TransportError">>>> IN
       /\ Run(cs)
       /\ enable' = [enable EXCEPT !.pc = Promised("submit", cs)]
    /\ last' = Did("submitError", Undefined, FALSE)
    /\ UNCHANGED <<lobbyroomComponentAddress, members>>

joinLobbyRoom(displayName, email, password) ==
    /\ joinLobbyRoomBody(displayName, email, password)
    /\ last' = Did("joinLobbyRoom", password, mainRoom.joined /\ IsModerator)
    /\ UNCHANGED <<lobbyroomComponentAddress, enable>>

(* the listeners joinLobbyRoom registers *)
\* mutant: the e-mail presence is sent whatever the role and the e-mail
mucJoinedListener_AlwaysEmail ==
    <<<<"resolve">>,
      <<"lobbyRoom.removeFromPresence", "email">>,
      <<"lobbyRoom.addToPresence", "email", room.email>>,
      <<"lobbyRoom.sendPresence">>>>

\* lines 193-202
mucJoinedListener ==
    <<<<"resolve">>>>
    \o (IF Truthy(room.email) /\ ~room.isModerator
        THEN <<<<"lobbyRoom.removeFromPresence", "email">>,
               <<"lobbyRoom.addToPresence", "email", room.email>>,
               <<"lobbyRoom.sendPresence">>>>
        ELSE <<>>)

\* mutant: an error makes the listener join again instead of rejecting
joinErrorListener_Retry(evt) == <<<<"lobbyRoom.join">>>>

\* lines 203-205
joinErrorListener(evt) == <<<<"reject", evt>>>>

\* mutant: the kick is taken without a notification
kickedListener_Silent(isSelfPresence) ==
    IF isSelfPresence THEN <<<<"lobbyRoom.clean">>>> ELSE <<>>

\* mutant: the self-presence flag is not looked at
kickedListener_AnyKick(isSelfPresence) ==
    <<<<"emit", "MUC_DENIED_ACCESS">>, <<"lobbyRoom.clean">>>>

\* lines 164-172
kickedListener(isSelfPresence) ==
    IF isSelfPresence
    THEN <<<<"emit", "MUC_DENIED_ACCESS">>, <<"lobbyRoom.clean">>>>
    ELSE <<>>

\* mutant: an invite to any room is followed
inviteListener_AnyRoom(roomJid) ==
    <<<<"mainRoom.join", Undefined>>, <<"lobbyRoom.leave">>>>

\* lines 179-189
inviteListener(roomJid) ==
    IF roomJid = mainRoom.roomjid
    THEN <<<<"mainRoom.join", Undefined>>, <<"lobbyRoom.leave">>>>
    ELSE <<>>

\* lines 152-161
memberJoinedListener(from, nick, avatar) ==
    <<<<"emit", "MUC_LOBBY_MEMBER_JOINED", getResourceFromJid(from), nick, avatar>>>>

\* lines 146-148
emailListener(value, from) ==
    <<<<"emit", "MUC_LOBBY_MEMBER_UPDATED", from[1], from[2], from[3], value>>>>

\* what the listeners of event evt on the lobby room do; none registered: nothing
Fire(evt, cs) == IF evt \in room.listeners THEN cs ELSE <<>>

RECURSIVE Repeat(_, _)
Repeat(cs, n) == IF n = 0 THEN <<>> ELSE cs \o Repeat(cs, n - 1)

\* enableLobby's promise follows the joinLobbyRoom promise it chained, lines 95-96
Chain ==
    IF enable.pc = "joining" /\ enable.room = lobbyRoom /\ room'.promise # "pending"
    THEN [enable EXCEPT !.pc = room'.promise, !.room = 0]
    ELSE enable

\* the lobby room reports that the join completed
mucJoined ==
    /\ lobbyRoom # 0
    /\ room.state = "joining"
    /\ RunOn([World EXCEPT !.room.state = "joined"], Fire("MUC_JOINED", mucJoinedListener))
    /\ enable' = Chain
    /\ last' = Did("mucJoined", Undefined, FALSE)
    /\ UNCHANGED <<lobbyroomComponentAddress, members>>

\* the lobby room reports a join or connect error: an error presence answers the
\* join, or a presence sent after the join completed
roomError(evt) ==
    /\ lobbyRoom # 0
    /\ room.state \in {"joining", "joined"}
    /\ RunOn([World EXCEPT !.room.state = IF @ = "joining" THEN "failed" ELSE @],
             Fire(evt, joinErrorListener(evt)))
    /\ enable' = Chain
    /\ last' = Did("roomError", evt, FALSE)
    /\ UNCHANGED <<lobbyroomComponentAddress, members>>

\* the lobby room reports a kick: of this occupant (who = "self") or of another
kicked(who) ==
    /\ lobbyRoom # 0
    /\ room.state = "joined"
    /\ who = "self" \/ \E m \in members : getResourceFromJid(m.key) = who
    /\ LET isSelfPresence == who = "self" IN
       RunOn([World EXCEPT !.room.state = IF isSelfPresence THEN "kicked" ELSE @],
             Fire("KICKED", kickedListener(isSelfPresence)))
    /\ members' = IF who = "self" THEN {}
                  ELSE {m \in members : getResourceFromJid(m.key) # who}
    /\ last' = Did("kicked", who, who = "self")
    /\ UNCHANGED <<lobbyroomComponentAddress, enable>>

\* an invite message reaches the main room's event emitter
inviteReceived(roomJid) ==
    /\ LET cs == Repeat(inviteListener(roomJid), mainRoom.inviteListeners) IN
       Run(cs)
    /\ members' = IF room'.state = "leaving" THEN {} ELSE members
    /\ last' = Did("inviteReceived", roomJid[1], roomJid = mainRoom.roomjid)
    /\ UNCHANGED <<lobbyroomComponentAddress, enable>>

\* lines 186-187: lobbyRoom.leave() settled; both continuations are empty
leaveSettled(ok) ==
    /\ lobbyRoom # 0
    /\ room.state = "leaving"
    /\ RunOn([World EXCEPT !.room.state = "left"], <<>>)
    /\ last' = Did("leaveSettled", Undefined, ok)
    /\ UNCHANGED <<lobbyroomComponentAddress, members, enable>>

\* a participant joins the lobby room
memberJoined(res, avatar) ==
    /\ lobbyRoom # 0
    /\ room.state = "joined"
    /\ \A m \in members : getResourceFromJid(m.key) # res
    /\ LET from == room.jid \o <<res>> IN
       /\ Run(Fire("MUC_MEMBER_JOINED", memberJoinedListener(from, NickOf(res), avatar)))
       /\ members' = members \cup {[key |-> from, jid |-> FullJidOf(res)]}
    /\ last' = Did("memberJoined", res, FALSE)
    /\ UNCHANGED <<lobbyroomComponentAddress, enable>>

\* a participant of the lobby room sends an e-mail presence
emailPresence(res, email) ==
    /\ lobbyRoom # 0
    /\ room.state = "joined"
    /\ \E m \in members : getResourceFromJid(m.key) = res
    /\ Run(Fire("email", emailListener(email, room.jid \o <<res>>)))
    /\ last' = Did("emailPresence", res, FALSE)
    /\ UNCHANGED <<lobbyroomComponentAddress, members, enable>>

\* a participant leaves the lobby room
memberLeft(m) ==
    /\ m \in members
    /\ members' = members \ {m}
    /\ Run(<<>>)
    /\ last' = Did("memberLeft", getResourceFromJid(m.key), FALSE)
    /\ UNCHANGED <<lobbyroomComponentAddress, enable>>

(* the main room *)
\* the pending mainRoom.join() settles (concurrent joins are not told apart)
mainJoinSettled(ok) ==
    /\ mainRoom.joining
    /\ RunOn([World EXCEPT
                !.mainRoom.joining = FALSE,
                !.mainRoom.joined = IF ok THEN TRUE ELSE @,
                !.mainRoom.role = IF ok /\ @ = "none" THEN "participant" ELSE @], <<>>)
    /\ last' = Did("mainJoinSettled", Undefined, ok)
    /\ UNCHANGED <<lobbyroomComponentAddress, members, enable>>

\* the main room grants or revokes the moderator role
roleChanged(role) ==
    /\ mainRoom.joined
    /\ role \in {"participant", "moderator"} \ {mainRoom.role}
    /\ RunOn([World EXCEPT !.mainRoom.role = role], <<>>)
    /\ last' = Did("roleChanged", role, FALSE)
    /\ UNCHANGED <<lobbyroomComponentAddress, members, enable>>

(* denyAccess / approveAccess: lines 216-258 *)
\* mutant: the comparison of the find predicate is inverted
findMember_Inverted(id) ==
    LET found == {m \in members : getResourceFromJid(m.key) # id} IN
    IF found = {} THEN NoJid ELSE (CHOOSE m \in found : TRUE).key

\* Object.keys(this.lobbyRoom.members).find(j => Strophe.getResourceFromJid(j) === id)
findMember(id) ==
    LET found == {m \in members : getResourceFromJid(m.key) = id} IN
    IF found = {} THEN NoJid ELSE (CHOOSE m \in found : TRUE).key

\* mutant: the invitee is the room-scoped address
memberJid_RoomScoped(key) == key

\* this.lobbyRoom.members[roomJid].jid
memberJid(key) == (CHOOSE m \in members : m.key = key).jid

\* mutant: denyAccess does not look at the caller's role
denyAccessCalls_AnyRole(id) ==
    IF ~isLobbySupported THEN <<>>
    ELSE IF lobbyRoom = 0 THEN <<<<"throw", "TypeError">>>>
    ELSE LET jid == findMember(id) IN
         IF jid # NoJid
         THEN <<<<"lobbyRoom.kick">> \o jid>>
         ELSE <<<<"logger.error">>>>

denyAccessCalls(id) ==
    IF ~isLobbySupported \/ ~IsModerator THEN <<>>
    ELSE IF lobbyRoom = 0 THEN <<<<"throw", "TypeError">>>>
    ELSE LET jid == findMember(id) IN
         IF jid # NoJid
         THEN <<<<"lobbyRoom.kick">> \o jid>>
         ELSE <<<<"logger.error">>>>

approveAccessCalls(id) ==
    IF ~isLobbySupported \/ ~IsModerator THEN <<>>
    ELSE IF lobbyRoom = 0 THEN <<<<"throw", "TypeError">>>>
    ELSE LET roomJid == findMember(id) IN
         IF roomJid # NoJid
         THEN <<<<"xmpp.sendIQ", "invite">> \o mainRoom.roomjid \o memberJid(roomJid)>>
         ELSE <<<<"logger.error">>>>

denyAccess(id) ==
    /\ Run(denyAccessCalls(id))
    /\ last' = Did("denyAccess", id, FALSE)
    /\ UNCHANGED <<lobbyroomComponentAddress, members, enable>>

approveAccess(id) ==
    /\ LET cs == approveAccessCalls(id) IN
       Run(cs)
    /\ last' = Did("approveAccess", id, FALSE)
    /\ UNCHANGED <<lobbyroomComponentAddress, members, enable>>

\* lines 251-254: the callbacks of the invite's sendIQ; the reply to an invite
\* is delivered before any other event
inviteSettled(ok) ==
    /\ last.op = "approveAccess"
    /\ Made(trace, "xmpp.sendIQ")
    /\ Run(IF ok THEN <<>> ELSE <<<<"logger.error">>>>)
    /\ last' = Did("inviteSettled", Undefined, ok)
    /\ UNCHANGED <<lobbyroomComponentAddress, members, enable>>

\* the identifiers given to denyAccess / approveAccess
Ids == {"res1", "res9"}
\* the arguments given to joinLobbyRoom: displayName, email, password
JoinArgs == {<<Undefined, Undefined, Undefined>>, <<"Alice", Undefined, Undefined>>,
             <<"Alice", "alice@example.com", Undefined>>,
             <<"Alice", "alice@example.com", "xyz789">>}

Next ==
    \/ \E password \in Passwords : enableLobby(password)
    \/ \E hasField \in BOOLEAN : queryResult(hasField)
    \/ queryError
    \/ submitResult
    \/ submitError
    \/ \E a \in JoinArgs : joinLobbyRoom(a[1], a[2], a[3])
    \/ mucJoined
    \/ \E evt \in JoinErrors : roomError(evt)
    \/ \E who \in {"self"} \cup Resources : kicked(who)
    \/ \E roomJid \in RoomJids : inviteReceived(roomJid)
    \/ \E ok \in BOOLEAN : leaveSettled(ok)
    \/ \E res \in Resources, avatar \in Avatars : memberJoined(res, avatar)
    \/ \E res \in Resources : emailPresence(res, "bob@example.com")
    \/ \E m \in members : memberLeft(m)
    \/ \E ok \in BOOLEAN : mainJoinSettled(ok)
    \/ \E role \in Roles : roleChanged(role)
    \/ \E id \in Ids : denyAccess(id)
    \/ \E id \in Ids : approveAccess(id)
    \/ \E ok \in BOOLEAN : inviteSettled(ok)

Spec == Init /\ [][Next]_vars

(* ------------------ a waiting participant at the far end ---------------- *)
\* The far-end controller ran joinLobbyRoom's waiting path and its join
\* completed; these are the lobby-room listeners that call registered.
PeerListeners ==
    LET cs == lobbyPathCalls(Undefined, Undefined, FALSE) IN
    {cs[i][2] : i \in Calls(cs, "lobbyRoom.addEventListener")}

\* the backend delivers the kick: the far-end lobby room emits KICKED with the
\* self-presence flag and the far-end controller's listener runs
peerKicked ==
    /\ peer.kick
    /\ peer.state = "joined"
    /\ LET cs == IF "KICKED" \in PeerListeners THEN kickedListener(TRUE) ELSE <<>> IN
       /\ peer' = [state |-> IF Made(cs, "lobbyRoom.clean") THEN "cleaned" ELSE "kicked",
                   kick |-> FALSE,
                   denied |-> Emitted(cs, "MUC_DENIED_ACCESS") # {}]
       /\ trace' = cs
    /\ last' = Did("peerKicked", PeerId, TRUE)
    /\ UNCHANGED core

\* the far-end participant leaves the lobby room by itself; a kick the backend
\* still holds for it finds nobody
peerLeft ==
    /\ peer.state = "joined"
    /\ peer' = [peer EXCEPT !.state = "left", !.kick = FALSE]
    /\ trace' = <<>>
    /\ last' = Did("peerLeft", PeerId, FALSE)
    /\ UNCHANGED core

InitLive == InitLobby /\ peer = WaitingPeer

\* a moderator's controller and the waiting participant: the handlers that bear
\* on who is in the lobby room and on the decisions about them
NextLive ==
    \/ \E a \in JoinArgs : joinLobbyRoom(a[1], a[2], a[3])
    \/ mucJoined
    \/ \E evt \in JoinErrors : roomError(evt)
    \/ \E who \in {"self"} \cup Resources : kicked(who)
    \/ \E res \in Resources, avatar \in Avatars : memberJoined(res, avatar)
    \/ \E m \in members : memberLeft(m)
    \/ \E role \in Roles : roleChanged(role)
    \/ \E id \in Ids : denyAccess(id)
    \/ \E id \in Ids : approveAccess(id)
    \/ \E ok \in BOOLEAN : inviteSettled(ok)
    \/ peerKicked
    \/ peerLeft

\* the backend delivers a kick it holds for an occupant of the lobby room
SpecLive == InitLive /\ [][NextLive]_vars /\ WF_vars(peerKicked)

(* ------------------------------- claims -------------------------------- *)

\* a stanza of the given type is among the calls cs
Sent(cs, type) == \E i \in 1..Len(cs) : cs[i][1] = "xmpp.sendIQ" /\ cs[i][2] = type

\* C1: without a lobby component address isLobbySupported() is false; enableLobby
\* rejects at once, sending no query or submission and creating or joining no
\* lobby room; denyAccess and approveAccess return without a kick, an invite or
\* any change of state.
C1_UnsupportedBackend ==
    [][lobbyroomComponentAddress = Undefined =>
         /\ ~isLobbySupported
         /\ last'.op = "enableLobby" =>
              /\ trace' = <<<<"enableLobby.reject", "UnsupportedError">>>>
              /\ enable'.pc = "rejected"
              /\ UNCHANGED <<mainRoom, lobbyRoom, room, members>>
         /\ last'.op \in {"denyAccess", "approveAccess"} =>
              /\ trace' = <<>>
              /\ UNCHANGED core]_vars

C1_Witness ==
    /\ lobbyroomComponentAddress = Undefined
    /\ last.op = "denyAccess"
    /\ IsModerator
    /\ \E m \in members : getResourceFromJid(m.key) = last.id

\* C2: when the configuration form lacks the members-only field, enableLobby
\* rejects with a configuration error; no configuration submission is sent and no
\* lobby room is created or joined, then or later for that call.
C2_FormWithoutMembersOnly ==
    [][/\ (last'.op = "queryResult" /\ ~last'.flag) =>
            /\ trace' = <<<<"enableLobby.reject", "ConfigurationError">>>>
            /\ enable'.pc = "rejected"
            /\ UNCHANGED <<mainRoom, lobbyRoom, room, members>>
       /\ enable.pc = "rejected" =>
            /\ ~Sent(trace', "set")
            /\ last'.op # "submitResult"]_vars

C2_Witness ==
    /\ last.op = "queryResult"
    /\ ~last.flag
    /\ enable.pc = "rejected"
    /\ trace = <<<<"enableLobby.reject", "ConfigurationError">>>>

\* C3: joinLobbyRoom with a shared password, called by a non-moderator, returns
\* the promise of mainRoom.join(password); it creates no lobby room and registers
\* no listener.
C3_FastPath ==
    [][(last'.op = "joinLobbyRoom" /\ Truthy(last'.id) /\ ~IsModerator) =>
         /\ trace' = <<<<"return mainRoom.join", last'.id>>>>
         /\ mainRoom' = [mainRoom EXCEPT !.joining = TRUE]
         /\ UNCHANGED <<lobbyRoom, room, members, enable>>]_vars

C3_Witness ==
    /\ last.op = "joinLobbyRoom"
    /\ Truthy(last.id)
    /\ ~last.flag
    /\ trace = <<<<"return mainRoom.join", "xyz789">>>>
    /\ lobbyRoom = 0

\* the listeners registered by the calls of cs that precede the i-th
RegisteredBefore(cs, i) ==
    {cs[j][2] : j \in {k \in 1..(i - 1) :
        cs[k][1] \in {"lobbyRoom.addEventListener", "lobbyRoom.addPresenceListener",
                      "mainRoom.addEventListener"}}}

\* the listeners of the lobby path, by role
PathListeners(isModerator) ==
    {"MUC_JOINED"} \cup JoinErrors
    \cup (IF isModerator THEN {"email", "MUC_MEMBER_JOINED"}
          ELSE {"KICKED", "INVITE_MESSAGE_RECEIVED"})

\* C4: on the lobby path every listener of the path is registered before the lobby
\* room's join is issued, and the join is the last call of joinLobbyRoom.
C4_ListenersBeforeJoin ==
    \A i \in Calls(trace, "lobbyRoom.join") :
        /\ i = Len(trace)
        /\ PathListeners(last.flag) \subseteq RegisteredBefore(trace, i)

C4_Witness ==
    /\ last.op = "joinLobbyRoom"
    /\ ~last.flag
    /\ Made(trace, "lobbyRoom.join")
    /\ room.state = "joining"

\* C5: for a waiting participant a kick with the self-presence flag makes exactly
\* one denied-access notification; a kick without it makes none.
C5_DeniedOncePerSelfKick ==
    (last.op = "kicked" /\ "KICKED" \in room.listeners) =>
        Cardinality(Emitted(trace, "MUC_DENIED_ACCESS")) = (IF last.flag THEN 1 ELSE 0)

C5_Witness ==
    /\ last.op = "kicked"
    /\ last.flag
    /\ "KICKED" \in room.listeners
    /\ Emitted(trace, "MUC_DENIED_ACCESS") # {}

\* C6: this.lobbyRoom is set only while the lobby room is being joined or is
\* joined: it is unset after a failed join and after the participant was denied,
\* approved or left.
C6_LobbyRoomOnlyWhileWaiting ==
    lobbyRoom # 0 => room.state \in {"joining", "joined"}

\* C7: an invite for the main room makes a waiting participant's controller call
\* mainRoom.join() and then lobbyRoom.leave(), so that the main room is being
\* joined and the lobby room left; a failed leave raises nothing and undoes
\* nothing; an invite for another room triggers neither call.
C7_InviteJoinsThenLeaves ==
    [][/\ (last'.op = "inviteReceived" /\ last'.flag /\ mainRoom.inviteListeners > 0) =>
            /\ Made(trace', "mainRoom.join")
            /\ \A i \in Calls(trace', "lobbyRoom.leave") :
                   \E j \in Calls(trace', "mainRoom.join") : j < i
            /\ \A j \in Calls(trace', "mainRoom.join") :
                   \E i \in Calls(trace', "lobbyRoom.leave") : j < i
            /\ ~Made(trace', "throw")
            /\ mainRoom'.joining
            /\ room'.state = "leaving"
       /\ (last'.op = "inviteReceived" /\ ~last'.flag) =>
            /\ trace' = <<>>
            /\ UNCHANGED core
       /\ last'.op = "leaveSettled" =>
            /\ trace' = <<>>
            /\ room'.state = "left"
            /\ UNCHANGED <<mainRoom, lobbyRoom, enable>>]_vars

C7_Witness ==
    /\ last.op = "inviteReceived"
    /\ last.flag
    /\ trace = <<<<"mainRoom.join", Undefined>>, <<"lobbyRoom.leave">>>>
    /\ room.state = "leaving"
    /\ mainRoom.joining

\* C8: denyAccess and approveAccess, called by a non-moderator or with an
\* identifier no lobby member has, send no kick and no invite and change nothing.
C8_NoEffectWithoutRoleOrMember ==
    [][(/\ last'.op \in {"denyAccess", "approveAccess"}
        /\ \/ ~IsModerator
           \/ \A m \in members : getResourceFromJid(m.key) # last'.id) =>
         /\ ~Made(trace', "lobbyRoom.kick")
         /\ ~Made(trace', "xmpp.sendIQ")
         /\ UNCHANGED core]_vars

C8_Witness ==
    /\ last.op = "denyAccess"
    /\ isLobbySupported
    /\ ~IsModerator
    /\ lobbyRoom # 0
    /\ \E m \in members : getResourceFromJid(m.key) = last.id

\* a moderator on a supported backend named a current lobby member
ModeratorNamedMember ==
    /\ isLobbySupported
    /\ IsModerator
    /\ lobbyRoom # 0
    /\ \E m \in members : getResourceFromJid(m.key) = last.id

\* C9: approveAccess(id) by a moderator, id naming a lobby member, sends exactly
\* one invite, addressed to the main room, whose invitee is the full address the
\* membership map records for that member; nobody is kicked.
C9_ApproveInvitesFullJid ==
    (last.op = "approveAccess" /\ ModeratorNamedMember) =>
        \E m \in members :
            /\ getResourceFromJid(m.key) = last.id
            /\ trace = <<<<"xmpp.sendIQ", "invite">> \o MainRoomJid \o m.jid>>

C9_Witness ==
    /\ last.op = "approveAccess"
    /\ ModeratorNamedMember
    /\ Sent(trace, "invite")
    /\ Cardinality(members) = 2

\* C10: denyAccess(id) by a moderator, id naming a lobby member, kicks that member
\* and nobody else, and sends no invite.
C10_DenyKicksNamedMember ==
    (last.op = "denyAccess" /\ ModeratorNamedMember) =>
        \E m \in members :
            /\ getResourceFromJid(m.key) = last.id
            /\ trace = <<<<"lobbyRoom.kick">> \o m.key>>

C10_Witness ==
    /\ last.op = "denyAccess"
    /\ ModeratorNamedMember
    /\ Made(trace, "lobbyRoom.kick")
    /\ Cardinality(members) = 2

SubmitsForm(c, password) ==
    /\ SubSeq(c, 1, 6) = <<"xmpp.sendIQ", "set", "room1", MucDomain,
                           "muc#roomconfig_membersonly", "true">>
    /\ IF Truthy(password)
       THEN SubSeq(c, 7, Len(c)) = <<"muc#roomconfig_lobbypassword", password>>
       ELSE Len(c) = 6

\* C12: on a supported backend enableLobby sends the configuration query alone;
\* the submission is sent only by the query's success callback, sets members-only
\* to true and carries the lobby password iff one was supplied; the lobby room,
\* the main room's node at the lobby domain, is created and joined only by the
\* submission's success callback; the result then settles as that join settles;
\* a failed query or submission rejects with the transport error and no later
\* step of that call is issued.
C12_EnableLobbyInOrder ==
    [][/\ (last'.op = "enableLobby" /\ isLobbySupported) =>
            /\ trace' = <<<<"xmpp.sendIQ", "get", "room1", MucDomain>>>>
            /\ enable'.pc = "query"
            /\ UNCHANGED <<mainRoom, lobbyRoom, room, members>>
       /\ Sent(trace', "set") =>
            /\ last'.op = "queryResult"
            /\ enable.pc = "query"
            /\ Len(trace') = 1
            /\ SubmitsForm(trace'[1], enable.password)
            /\ enable'.pc = "submit"
            /\ UNCHANGED <<mainRoom, lobbyRoom, room, members>>
       /\ last'.op = "submitResult" =>
            /\ enable.pc = "submit"
            /\ trace'[1] = <<"xmpp.createRoom", "room1", LobbyDomain>>
            /\ Count(trace', "lobbyRoom.join") = 1
            /\ room'.jid = <<"room1", LobbyDomain>>
            /\ room'.state = "joining"
            /\ enable'.pc = "joining"
       /\ last'.op \in {"queryError", "submitError"} =>
            /\ trace' = <<<<"enableLobby.reject", "TransportError">>>>
            /\ enable'.pc = "rejected"
            /\ UNCHANGED <<mainRoom, lobbyRoom, room, members>>
       /\ enable.pc = "rejected" =>
            /\ ~Sent(trace', "set")
            /\ last'.op # "submitResult"
       /\ (enable.pc = "joining" /\ enable.room = lobbyRoom
           /\ last'.op \in {"mucJoined", "roomError"}) =>
            /\ enable'.pc = (IF last'.op = "mucJoined" THEN "resolved" ELSE "rejected")
            /\ enable'.pc = room'.promise]_vars

C12_Witness ==
    /\ enable.pc = "resolved"
    /\ last.op = "mucJoined"
    /\ room.jid = <<"room1", LobbyDomain>>
    /\ room.state = "joined"

C14_OneTerminalOutcome ==
    [][/\ (room.state = "cleaned" /\ last'.op = "inviteReceived" /\ last'.flag) =>
            /\ ~Made(trace', "mainRoom.join")
            /\ ~Made(trace', "lobbyRoom.leave")
       /\ (room.state \in {"leaving", "left"} /\ last'.op = "kicked") =>
            Emitted(trace', "MUC_DENIED_ACCESS") = {}]_vars

\* C15: every role-dependent decision follows the main room's moderator status at
\* the moment it is taken: joinLobbyRoom takes the password path iff a password
\* is given and the caller is then no moderator; when the lobby join completes the
\* e-mail is sent again iff one was given and the caller is then no moderator;
\* denyAccess and approveAccess act iff the caller is then a moderator.
C15_RoleNeverCached ==
    /\ last.op = "joinLobbyRoom" =>
         (Made(trace, "return mainRoom.join") <=> (Truthy(last.id) /\ ~IsModerator))
    /\ (last.op = "mucJoined" /\ Truthy(room.email)) =>
         (Made(trace, "lobbyRoom.sendPresence") <=> ~IsModerator)
    /\ (last.op \in {"denyAccess", "approveAccess"} /\ isLobbySupported) =>
         (trace # <<>> <=> IsModerator)

\* C16: denyAccess and approveAccess raise no error in any reachable state: with
\* no member of the given identifier they only log, a failed invite is only
\* logged, and a moderator on a supported backend whose controller has no lobby
\* room gets no error either.
C16_NeverRaises ==
    /\ last.op \in {"denyAccess", "approveAccess", "inviteSettled"} =>
         ~Made(trace, "throw")
    /\ (last.op \in {"denyAccess", "approveAccess"} /\ isLobbySupported /\ IsModerator
        /\ \A m \in members : getResourceFromJid(m.key) # last.id) =>
         trace = <<<<"logger.error">>>>
    /\ (last.op = "inviteSettled" /\ ~last.flag) => trace = <<<<"logger.error">>>>

\* C17: an error the lobby room reports before the join completed rejects the
\* joinLobbyRoom result; a settled result never changes; the lobby room's join is
\* issued once by the call that created the room and by no listener.
C17_RejectsOnceNoRetry ==
    [][/\ (last'.op = "roomError" /\ room.state = "joining") =>
            /\ trace' = <<<<"reject", last'.id>>>>
            /\ room'.promise = "rejected"
            /\ room'.state = "failed"
       /\ (lobbyRoom' = lobbyRoom /\ room.promise \in {"resolved", "rejected"}) =>
            room'.promise = room.promise
       /\ Count(trace', "lobbyRoom.join") = (IF lobbyRoom' # lobbyRoom THEN 1 ELSE 0)
       /\ lobbyRoom' # lobbyRoom => last'.op \in {"joinLobbyRoom", "submitResult"}]_vars

C17_Witness ==
    /\ last.op = "roomError"
    /\ last.id \in JoinErrors
    /\ room.state = "failed"
    /\ room.promise = "rejected"
    /\ trace = <<<<"reject", last.id>>>>

\* a moderator on a supported backend denies the waiting far-end participant
DeniesPeer ==
    /\ last.op = "denyAccess"
    /\ last.id = PeerId
    /\ ModeratorNamedMember
    /\ Made(trace, "lobbyRoom.kick")
    /\ peer.state = "joined"

\* C18: denyAccess returns with the far-end participant still waiting and not yet
\* notified; if the backend delivers the kick to that participant, its
\* controller eventually emits denied access, unless it left the lobby room
\* before the kick reached it.
C18_DenialEventuallyConsistent ==
    /\ [][last'.op = "denyAccess" =>
            /\ peer'.state = peer.state
            /\ peer'.denied = peer.denied]_vars
    /\ DeniesPeer ~> (peer.denied \/ peer.state = "left")

C18_Witness ==
    /\ last.op = "peerKicked"
    /\ peer.denied
    /\ peer.state = "cleaned"
    /\ trace = <<<<"emit", "MUC_DENIED_ACCESS">>, <<"lobbyRoom.clean">>>>

\* C19: one invite for the main room makes the waiting participant's controller
\* issue exactly one main-room join and exactly one lobby-room leave, however
\* many times joinLobbyRoom was called before.
C19_OneJoinPerInvite ==
    (last.op = "inviteReceived" /\ last.flag /\ mainRoom.inviteListeners > 0) =>
        /\ Count(trace, "mainRoom.join") = 1
        /\ Count(trace, "lobbyRoom.leave") = 1

\* C20: a controller whose joinLobbyRoom took the moderator path emits no denied
\* access and neither joins the main room nor leaves the lobby room on an
\* invite; one whose joinLobbyRoom took the waiting path emits no member-joined
\* and no member-updated notification.
C20_RolesWiredExclusively ==
    /\ (lobbyRoom # 0 /\ room.isModerator) =>
         /\ Emitted(trace, "MUC_DENIED_ACCESS") = {}
         /\ last.op = "inviteReceived" =>
              ~Made(trace, "mainRoom.join") /\ ~Made(trace, "lobbyRoom.leave")
    /\ (lobbyRoom # 0 /\ ~room.isModerator) =>
         /\ Emitted(trace, "MUC_LOBBY_MEMBER_JOINED") = {}
         /\ Emitted(trace, "MUC_LOBBY_MEMBER_UPDATED") = {}

====
